---- MODULE Spec2Model ----
(***************************************************************************)
(* Data-access layer of gestione-backend (src/app/crud.py): six tables     *)
(* (Client, Plant, Machine, Commission, User, Report), the create / edit / *)
(* delete handlers and the report queries.  A table is a set of rows; a    *)
(* row keeps the columns the handlers and the join conditions read.        *)
(* The store itself (app.models, app.database) enforces nothing here: no   *)
(* foreign key and no unique index is assumed, so every rule is the one    *)
(* the handler code applies.                                               *)
(***************************************************************************)
EXTENDS Integers, FiniteSets, Sequences, TLC

VARIABLES clients, plants, machines, commissions, users, reports,
          nextId, room, last, blocked, pc, req

tables == <<clients, plants, machines, commissions, users, reports>>
vars == <<clients, plants, machines, commissions, users, reports,
          nextId, room, last, blocked, pc, req>>

\* ---------------------------------------------------------------- bounds
\* Rows one table may ever receive (caps the autoincrement counter) and the
\* largest id a caller passes.
MaxId == 2
\* Rows all tables together may receive in the specifications of the handlers.
MaxRows == 3
\* Rows all tables together may receive in the specification of the queries.
MaxQueryRows == 5
\* Concurrent callers in the specification of the interleaved creates.
NumProcs == 2

\* ---------------------------------------------------------------- inputs
Ids == 1..MaxId
Names == {"acme", "beta"}
Codes == {"c1", "c2"}
Usernames == {"ann", "bob"}
Emails == {"a@x", "b@x"}
RoleLabels == {"Operatore", "Dirigente", "user", "admin"}
Types == {"commission", "machine"}
Dates == {1, 2}
DateStrings == {"", "2024-01-01", "2024-01-02"}
Procs == 1..NumProcs
TableNames == {"client", "plant", "machine", "commission", "user", "report"}

\* ---------------------------------------------------------------- helpers
\* db.query(T).get(id): the rows of T with that primary key (none or one).
Get(T, id) == {r \in T : r.id = id}

\* db.add + db.commit can hand out a fresh autoincrement key.
CanInsert(t) == nextId[t] <= MaxId /\ room > 0

\* Ids a caller passes for table t: every key handed out so far (live or deleted)
\* and the first key not handed out yet.
Refs(t) == {i \in Ids : i <= nextId[t]}
WorkRefs == Refs("commission") \cup Refs("machine")

Bump(t) == [nextId EXCEPT ![t] = @ + 1]

\* The handlers of the atomic specifications leave the callers' positions alone.
Atomic == UNCHANGED <<pc, req>>

Empty(n) ==
    /\ clients = {} /\ plants = {} /\ machines = {} /\ commissions = {}
    /\ users = {} /\ reports = {}
    /\ nextId = [t \in TableNames |-> 1]
    /\ room = n
    /\ last = [op |-> "init"]
    /\ blocked = {}
    /\ pc = [p \in Procs |-> "idle"]
    /\ req = [p \in Procs |-> [op |-> "none"]]

Init == Empty(MaxRows)

\* ---------------------------------------------------------------- creates
\* create_client without its uniqueness query.
create_client_unchecked(name) ==
    /\ Atomic
    /\ CanInsert("client")
    /\ clients' = clients \cup {[id |-> nextId["client"], name |-> name]}
    /\ nextId' = Bump("client") /\ room' = room - 1
    /\ last' = [op |-> "create_client", name |-> name, res |-> "ok"]
    /\ UNCHANGED <<plants, machines, commissions, users, reports, blocked>>

create_client(name) ==
    /\ Atomic
    /\ IF \E c \in clients : c.name = name
       THEN /\ last' = [op |-> "create_client", name |-> name, res |-> "Conflict"]
            /\ UNCHANGED <<tables, nextId, room, blocked>>
       ELSE /\ CanInsert("client")
            /\ clients' = clients \cup {[id |-> nextId["client"], name |-> name]}
            /\ nextId' = Bump("client") /\ room' = room - 1
            /\ last' = [op |-> "create_client", name |-> name, res |-> "ok"]
            /\ UNCHANGED <<plants, machines, commissions, users, reports, blocked>>

create_commission(code, client_id) ==
    /\ Atomic
    /\ IF \E c \in commissions : c.code = code
       THEN /\ last' = [op |-> "create_commission", code |-> code, res |-> "Conflict"]
            /\ UNCHANGED <<tables, nextId, room, blocked>>
       ELSE /\ CanInsert("commission")
            /\ commissions' = commissions \cup
                 {[id |-> nextId["commission"], code |-> code, client_id |-> client_id]}
            /\ nextId' = Bump("commission") /\ room' = room - 1
            /\ last' = [op |-> "create_commission", code |-> code, res |-> "ok"]
            /\ UNCHANGED <<clients, plants, machines, users, reports, blocked>>

create_plant(client_id) ==
    /\ Atomic
    /\ CanInsert("plant")
    /\ plants' = plants \cup {[id |-> nextId["plant"], client_id |-> client_id]}
    /\ nextId' = Bump("plant") /\ room' = room - 1
    /\ last' = [op |-> "create_plant", res |-> "ok"]
    /\ UNCHANGED <<clients, machines, commissions, users, reports, blocked>>

create_machine(plant_id) ==
    /\ Atomic
    /\ CanInsert("machine")
    /\ machines' = machines \cup {[id |-> nextId["machine"], plant_id |-> plant_id]}
    /\ nextId' = Bump("machine") /\ room' = room - 1
    /\ last' = [op |-> "create_machine", res |-> "ok"]
    /\ UNCHANGED <<clients, plants, commissions, users, reports, blocked>>

\* Role labels are normalised before the row is stored.
NormalizeRole(role) ==
    IF role = "Operatore" THEN "user"
    ELSE IF role = "Dirigente" THEN "admin"
    ELSE role

create_user(username, email, role) ==
    /\ Atomic
    /\ IF \E u \in users : u.username = username
       THEN /\ last' = [op |-> "create_user", username |-> username, email |-> email,
                        res |-> "Conflict"]
            /\ UNCHANGED <<tables, nextId, room, blocked>>
       ELSE IF \E u \in users : u.email = email
       THEN /\ last' = [op |-> "create_user", username |-> username, email |-> email,
                        res |-> "Conflict"]
            /\ UNCHANGED <<tables, nextId, room, blocked>>
       ELSE /\ CanInsert("user")
            /\ users' = users \cup {[id |-> nextId["user"], username |-> username,
                                     email |-> email, role |-> NormalizeRole(role)]}
            /\ nextId' = Bump("user") /\ room' = room - 1
            /\ last' = [op |-> "create_user", username |-> username, email |-> email,
                        res |-> "ok"]
            /\ UNCHANGED <<clients, plants, machines, commissions, reports, blocked>>

create_report(type, work_id, date, user_id) ==
    /\ Atomic
    /\ CanInsert("report")
    /\ reports' = reports \cup {[id |-> nextId["report"], type |-> type, work_id |-> work_id,
                                 date |-> date, operator_id |-> user_id]}
    /\ nextId' = Bump("report") /\ room' = room - 1
    /\ last' = [op |-> "create_report", res |-> "ok"]
    /\ UNCHANGED <<clients, plants, machines, commissions, users, blocked>>

\* edit_report that leaves operator_id as it was.
edit_report_keep_owner(report_id, type, work_id, date, user_id) ==
    /\ Atomic
    /\ IF Get(reports, report_id) # {}
       THEN /\ reports' = {IF r.id = report_id
                           THEN [r EXCEPT !.type = type, !.work_id = work_id, !.date = date]
                           ELSE r : r \in reports}
            /\ last' = [op |-> "edit_report", id |-> report_id, user |-> user_id,
                        owner |-> (CHOOSE r \in Get(reports, report_id) : TRUE).operator_id,
                        res |-> "ok"]
       ELSE /\ reports' = reports
            /\ last' = [op |-> "edit_report", id |-> report_id, user |-> user_id,
                        owner |-> 0, res |-> "Errore400"]
    /\ UNCHANGED <<clients, plants, machines, commissions, users, nextId, room, blocked>>

\* ---------------------------------------------------------------- edit
edit_report(report_id, type, work_id, date, user_id) ==
    /\ Atomic
    /\ IF Get(reports, report_id) # {}
       THEN /\ reports' = {IF r.id = report_id
                           THEN [r EXCEPT !.type = type, !.work_id = work_id,
                                          !.date = date, !.operator_id = user_id]
                           ELSE r : r \in reports}
            /\ last' = [op |-> "edit_report", id |-> report_id, user |-> user_id,
                        owner |-> (CHOOSE r \in Get(reports, report_id) : TRUE).operator_id,
                        res |-> "ok"]
       ELSE /\ reports' = reports
            /\ last' = [op |-> "edit_report", id |-> report_id, user |-> user_id,
                        owner |-> 0, res |-> "Errore400"]
    /\ UNCHANGED <<clients, plants, machines, commissions, users, nextId, room, blocked>>

\* ---------------------------------------------------------------- deletes
\* delete_user without the role test.
delete_user_result_no_admin(U, user_id, current_user_id) ==
    LET user == Get(U, user_id) IN
    IF user_id = 1 \/ user_id = current_user_id THEN "Forbidden"
    ELSE IF user = {} THEN "AttributeError"
    ELSE "ok"

\* Outcome of delete_user, in the order the code evaluates its conditions.
delete_user_result(U, user_id, current_user_id) ==
    LET user == Get(U, user_id) IN
    IF user_id = 1 \/ user_id = current_user_id THEN "Forbidden"
    ELSE IF user = {} THEN "AttributeError"
    ELSE IF \E u \in user : u.role = "admin" THEN "Forbidden"
    ELSE "ok"

delete_user(user_id, current_user_id) ==
    LET res == delete_user_result(users, user_id, current_user_id) IN
    /\ Atomic
    /\ users' = IF res = "ok" THEN users \ Get(users, user_id) ELSE users
    /\ last' = [op |-> "delete_user", id |-> user_id, user |-> current_user_id, res |-> res]
    /\ UNCHANGED <<clients, plants, machines, commissions, reports, nextId, room, blocked>>

\* delete_client that tests the dependency probe before the lookup.
delete_client_result_probe_first(C, K, client_id) ==
    LET client == Get(C, client_id)
        exists == {k \in K : k.client_id = client_id}
    IN IF exists # {} THEN "Conflict"
       ELSE IF client = {} THEN "NotFound"
       ELSE "ok"

\* Outcome of delete_client: lookup and probe first, then the two tests.
delete_client_result(C, K, client_id) ==
    LET client == Get(C, client_id)
        exists == {k \in K : k.client_id = client_id}
    IN IF client = {} THEN "NotFound"
       ELSE IF exists # {} THEN "Conflict"
       ELSE "ok"

delete_commission_result(K, R, commission_id) ==
    LET commission == Get(K, commission_id)
        exists == {r \in R : r.work_id = commission_id /\ r.type = "commission"}
    IN IF commission = {} THEN "NotFound"
       ELSE IF exists # {} THEN "Conflict"
       ELSE "ok"

delete_machine_result(M, R, machine_id) ==
    LET machine == Get(M, machine_id)
        exists == {r \in R : r.work_id = machine_id /\ r.type = "machine"}
    IN IF machine = {} THEN "NotFound"
       ELSE IF exists # {} THEN "Conflict"
       ELSE "ok"

delete_plant_result(P, M, plant_id) ==
    LET plant == Get(P, plant_id) IN
    IF plant = {} THEN "NotFound"
    ELSE LET exists == {m \in M : m.plant_id = plant_id} IN
         IF exists # {} THEN "Conflict" ELSE "ok"

delete_report_result(R, report_id, user_id) ==
    LET report == Get(R, report_id) IN
    IF report = {} THEN "NotFound"
    ELSE IF \E r \in report : r.operator_id # user_id THEN "Forbidden"
    ELSE "ok"

\* Deletes that have ended in Conflict so far (history, read by no handler).
Note(t, id, res) == IF res = "Conflict" THEN blocked \cup {<<t, id>>} ELSE blocked

delete_client(client_id) ==
    LET res == delete_client_result(clients, commissions, client_id) IN
    /\ Atomic
    /\ clients' = IF res = "ok" THEN clients \ Get(clients, client_id) ELSE clients
    /\ last' = [op |-> "delete_client", id |-> client_id, res |-> res]
    /\ blocked' = Note("client", client_id, res)
    /\ UNCHANGED <<plants, machines, commissions, users, reports, nextId, room>>

delete_commission(commission_id) ==
    LET res == delete_commission_result(commissions, reports, commission_id) IN
    /\ Atomic
    /\ commissions' = IF res = "ok" THEN commissions \ Get(commissions, commission_id)
                      ELSE commissions
    /\ last' = [op |-> "delete_commission", id |-> commission_id, res |-> res]
    /\ blocked' = Note("commission", commission_id, res)
    /\ UNCHANGED <<clients, plants, machines, users, reports, nextId, room>>

delete_machine(machine_id) ==
    LET res == delete_machine_result(machines, reports, machine_id) IN
    /\ Atomic
    /\ machines' = IF res = "ok" THEN machines \ Get(machines, machine_id) ELSE machines
    /\ last' = [op |-> "delete_machine", id |-> machine_id, res |-> res]
    /\ blocked' = Note("machine", machine_id, res)
    /\ UNCHANGED <<clients, plants, commissions, users, reports, nextId, room>>

delete_plant(plant_id) ==
    LET res == delete_plant_result(plants, machines, plant_id) IN
    /\ Atomic
    /\ plants' = IF res = "ok" THEN plants \ Get(plants, plant_id) ELSE plants
    /\ last' = [op |-> "delete_plant", id |-> plant_id, res |-> res]
    /\ blocked' = Note("plant", plant_id, res)
    /\ UNCHANGED <<clients, machines, commissions, users, reports, nextId, room>>

delete_report(report_id, user_id) ==
    LET res == delete_report_result(reports, report_id, user_id) IN
    /\ Atomic
    /\ reports' = IF res = "ok" THEN reports \ Get(reports, report_id) ELSE reports
    /\ last' = [op |-> "delete_report", id |-> report_id, user |-> user_id, res |-> res]
    /\ UNCHANGED <<clients, plants, machines, commissions, users, nextId, room, blocked>>

\* ---------------------------------------------------------------- queries
\* SQL NULL in a column of an outer-joined table that found no match.
NULL == -1
NullCommission == [id |-> NULL, code |-> "", client_id |-> NULL]
NullMachine == [id |-> NULL, plant_id |-> NULL]
NullPlant == [id |-> NULL, client_id |-> NULL]

\* a = b in an ON clause: a comparison with NULL never matches.
Eq(a, b) == a # NULL /\ b # NULL /\ a = b

\* LEFT OUTER JOIN: the matching rows, or one all-NULL row when there is none.
Outer(matches, null) == IF matches = {} THEN {null} ELSE matches

\* The Commission join of get_reports without the discriminator.
list_commission_on_any_type(r, c) == Eq(r.work_id, c.id)

\* ON clauses of get_reports.
list_commission_on(r, c) == r.type = "commission" /\ Eq(r.work_id, c.id)
list_machine_on(r, m) == r.type = "machine" /\ Eq(r.work_id, m.id)
list_plant_on(r, m, p) == r.type = "machine" /\ Eq(m.plant_id, p.id)
list_client_on(r, c, p, k) ==
    Eq(c.client_id, k.id) \/ (Eq(p.client_id, k.id) /\ r.type = "machine")

get_reports(user_id) ==
    LET J1 == UNION {{[report |-> r, commission |-> c] :
                        c \in Outer({c \in commissions : list_commission_on(r, c)},
                                    NullCommission)} : r \in reports}
        J2 == UNION {{[report |-> j.report, commission |-> j.commission, machine |-> m] :
                        m \in Outer({m \in machines : list_machine_on(j.report, m)},
                                    NullMachine)} : j \in J1}
        J3 == UNION {{[report |-> j.report, commission |-> j.commission,
                       machine |-> j.machine, user |-> u] :
                        u \in {u \in users : Eq(j.report.operator_id, u.id)}} : j \in J2}
        J4 == UNION {{[report |-> j.report, commission |-> j.commission,
                       machine |-> j.machine, user |-> j.user, plant |-> p] :
                        p \in Outer({p \in plants : list_plant_on(j.report, j.machine, p)},
                                    NullPlant)} : j \in J3}
        J5 == UNION {{[report |-> j.report, commission |-> j.commission,
                       machine |-> j.machine, user |-> j.user, plant |-> j.plant,
                       client |-> k] :
                        k \in {k \in clients :
                                 list_client_on(j.report, j.commission, j.plant, k)}} :
                     j \in J4}
    IN IF user_id # 0 THEN {j \in J5 : j.report.operator_id = user_id} ELSE J5

\* ON clauses of get_report_by_id.
detail_commission_on(r, c) == r.type = "commission" /\ Eq(r.work_id, c.id)
detail_machine_on(r, m) == r.type = "machine" /\ Eq(r.work_id, m.id)
detail_plant_on(m, p) == Eq(m.plant_id, p.id)
detail_client_on(c, p, k) == Eq(p.client_id, k.id) \/ Eq(c.client_id, k.id)

\* The rows of the query of get_report_by_id, before .first().
report_by_id_rows(report_id) ==
    LET J1 == UNION {{[report |-> r, commission |-> c] :
                        c \in Outer({c \in commissions : detail_commission_on(r, c)},
                                    NullCommission)} : r \in reports}
        J2 == UNION {{[report |-> j.report, commission |-> j.commission, machine |-> m] :
                        m \in Outer({m \in machines : detail_machine_on(j.report, m)},
                                    NullMachine)} : j \in J1}
        J3 == UNION {{[report |-> j.report, commission |-> j.commission,
                       machine |-> j.machine, user |-> u] :
                        u \in {u \in users : Eq(j.report.operator_id, u.id)}} : j \in J2}
        J4 == UNION {{[report |-> j.report, commission |-> j.commission,
                       machine |-> j.machine, user |-> j.user, plant |-> p] :
                        p \in Outer({p \in plants : detail_plant_on(j.machine, p)},
                                    NullPlant)} : j \in J3}
        J5 == UNION {{[report |-> j.report, commission |-> j.commission,
                       machine |-> j.machine, user |-> j.user, plant |-> j.plant,
                       client |-> k] :
                        k \in {k \in clients : detail_client_on(j.commission, j.plant, k)}} :
                     j \in J4}
    IN {j \in J5 : j.report.id = report_id}

\* .first(): one of the rows, or no row.
get_report_by_id(report_id) ==
    LET rows == report_by_id_rows(report_id) IN
    IF rows = {} THEN {} ELSE {CHOOSE j \in rows : TRUE}

\* datetime.strptime(s, "%Y-%m-%d") for the date strings of the model, as the
\* day it denotes.
strptime(s) == CASE s = "2024-01-01" -> 1
                 [] s = "2024-01-02" -> 2

get_reports_in_interval(start_date, end_date, work_id, operator_id) ==
    LET J1 == UNION {{[report |-> r, commission |-> c] :
                        c \in {c \in commissions : Eq(r.work_id, c.id)}} : r \in reports}
        J2 == UNION {{[report |-> j.report, commission |-> j.commission, client |-> k] :
                        k \in {k \in clients : Eq(j.commission.client_id, k.id)}} : j \in J1}
        J3 == UNION {{[report |-> j.report, commission |-> j.commission,
                       client |-> j.client, user |-> u] :
                        u \in {u \in users : Eq(j.report.operator_id, u.id)}} : j \in J2}
        F1 == IF work_id # 0 THEN {j \in J3 : j.report.work_id = work_id} ELSE J3
        F2 == IF operator_id # 0 THEN {j \in F1 : j.report.operator_id = operator_id} ELSE F1
    IN IF start_date # "" /\ end_date # ""
       THEN {j \in F2 : /\ j.report.date >= strptime(start_date)
                        /\ j.report.date <= strptime(end_date)}
       ELSE LET F3 == IF start_date # ""
                      THEN {j \in F2 : j.report.date >= strptime(start_date)} ELSE F2
            IN IF end_date # ""
               THEN {j \in F3 : j.report.date <= strptime(end_date)} ELSE F3

\* ---------------------------------------------------------------- interleaved creates
\* The same create handlers, one statement at a time: the uniqueness query,
\* then (in a later step of the same caller) the insert.
check_client(p, name) ==
    /\ pc[p] = "idle"
    /\ IF \E c \in clients : c.name = name
       THEN /\ last' = [op |-> "create_client", name |-> name, res |-> "Conflict"]
            /\ UNCHANGED <<pc, req>>
       ELSE /\ pc' = [pc EXCEPT ![p] = "insert_client"]
            /\ req' = [req EXCEPT ![p] = [op |-> "create_client", name |-> name]]
            /\ UNCHANGED last
    /\ UNCHANGED <<tables, nextId, room, blocked>>

\* The insert of create_client against a unique index on Client.name: a
\* duplicate is refused and the call ends.
insert_client_unique(p) ==
    /\ pc[p] = "insert_client"
    /\ pc' = [pc EXCEPT ![p] = "idle"]
    /\ req' = [req EXCEPT ![p] = [op |-> "none"]]
    /\ IF \E c \in clients : c.name = req[p].name
       THEN /\ last' = [op |-> "create_client", name |-> req[p].name, res |-> "Conflict"]
            /\ UNCHANGED <<tables, nextId, room, blocked>>
       ELSE /\ CanInsert("client")
            /\ clients' = clients \cup {[id |-> nextId["client"], name |-> req[p].name]}
            /\ nextId' = Bump("client") /\ room' = room - 1
            /\ last' = [op |-> "create_client", name |-> req[p].name, res |-> "ok"]
            /\ UNCHANGED <<plants, machines, commissions, users, reports, blocked>>

insert_client(p) ==
    /\ pc[p] = "insert_client"
    /\ CanInsert("client")
    /\ clients' = clients \cup {[id |-> nextId["client"], name |-> req[p].name]}
    /\ nextId' = Bump("client") /\ room' = room - 1
    /\ pc' = [pc EXCEPT ![p] = "idle"]
    /\ req' = [req EXCEPT ![p] = [op |-> "none"]]
    /\ last' = [op |-> "create_client", name |-> req[p].name, res |-> "ok"]
    /\ UNCHANGED <<plants, machines, commissions, users, reports, blocked>>

check_commission(p, code, client_id) ==
    /\ pc[p] = "idle"
    /\ IF \E c \in commissions : c.code = code
       THEN /\ last' = [op |-> "create_commission", code |-> code, res |-> "Conflict"]
            /\ UNCHANGED <<pc, req>>
       ELSE /\ pc' = [pc EXCEPT ![p] = "insert_commission"]
            /\ req' = [req EXCEPT ![p] = [op |-> "create_commission", code |-> code,
                                          client_id |-> client_id]]
            /\ UNCHANGED last
    /\ UNCHANGED <<tables, nextId, room, blocked>>

insert_commission(p) ==
    /\ pc[p] = "insert_commission"
    /\ CanInsert("commission")
    /\ commissions' = commissions \cup
         {[id |-> nextId["commission"], code |-> req[p].code, client_id |-> req[p].client_id]}
    /\ nextId' = Bump("commission") /\ room' = room - 1
    /\ pc' = [pc EXCEPT ![p] = "idle"]
    /\ req' = [req EXCEPT ![p] = [op |-> "none"]]
    /\ last' = [op |-> "create_commission", code |-> req[p].code, res |-> "ok"]
    /\ UNCHANGED <<clients, plants, machines, users, reports, blocked>>

check_username(p, username, email, role) ==
    /\ pc[p] = "idle"
    /\ IF \E u \in users : u.username = username
       THEN /\ last' = [op |-> "create_user", username |-> username, email |-> email,
                        res |-> "Conflict"]
            /\ UNCHANGED <<pc, req>>
       ELSE /\ pc' = [pc EXCEPT ![p] = "check_email"]
            /\ req' = [req EXCEPT ![p] = [op |-> "create_user", username |-> username,
                                          email |-> email, role |-> role]]
            /\ UNCHANGED last
    /\ UNCHANGED <<tables, nextId, room, blocked>>

check_email(p) ==
    /\ pc[p] = "check_email"
    /\ IF \E u \in users : u.email = req[p].email
       THEN /\ last' = [op |-> "create_user", username |-> req[p].username,
                        email |-> req[p].email, res |-> "Conflict"]
            /\ pc' = [pc EXCEPT ![p] = "idle"]
            /\ req' = [req EXCEPT ![p] = [op |-> "none"]]
       ELSE /\ pc' = [pc EXCEPT ![p] = "insert_user"]
            /\ UNCHANGED <<req, last>>
    /\ UNCHANGED <<tables, nextId, room, blocked>>

insert_user(p) ==
    /\ pc[p] = "insert_user"
    /\ CanInsert("user")
    /\ users' = users \cup {[id |-> nextId["user"], username |-> req[p].username,
                             email |-> req[p].email, role |-> NormalizeRole(req[p].role)]}
    /\ nextId' = Bump("user") /\ room' = room - 1
    /\ pc' = [pc EXCEPT ![p] = "idle"]
    /\ req' = [req EXCEPT ![p] = [op |-> "none"]]
    /\ last' = [op |-> "create_user", username |-> req[p].username,
                email |-> req[p].email, res |-> "ok"]
    /\ UNCHANGED <<clients, plants, machines, commissions, reports, blocked>>

\* ---------------------------------------------------------------- specifications
\* Spec: the handlers of the five tables that reference one another.
CreateClient == \E n \in Names : create_client(n)
CreateCommission == \E c \in Codes, k \in Refs("client") : create_commission(c, k)
CreatePlant == \E k \in Refs("client") : create_plant(k)
CreateMachine == \E k \in Refs("plant") : create_machine(k)
CreateReport == \E t \in Types, w \in WorkRefs : create_report(t, w, 1, 1)
EditReport == \E i \in Refs("report"), t \in Types, w \in WorkRefs : edit_report(i, t, w, 1, 1)
DeleteClient == \E i \in Refs("client") : delete_client(i)
DeleteCommission == \E i \in Refs("commission") : delete_commission(i)
DeleteMachine == \E i \in Refs("machine") : delete_machine(i)
DeletePlant == \E i \in Refs("plant") : delete_plant(i)
DeleteReport == \E i \in Refs("report") : delete_report(i, 1)

Next ==
    \/ CreateClient \/ CreateCommission \/ CreatePlant \/ CreateMachine
    \/ CreateReport \/ EditReport
    \/ DeleteClient \/ DeleteCommission \/ DeleteMachine \/ DeletePlant \/ DeleteReport

Spec == Init /\ [][Next]_vars

\* SpecUnique: the handlers of the tables with a unique column, and their deletes.
CreateUser == \E u \in Usernames, e \in Emails, r \in RoleLabels : create_user(u, e, r)
DeleteUser == \E i \in Refs("user"), u \in Ids : delete_user(i, u)

NextUnique ==
    \/ CreateClient \/ CreateCommission \/ CreateUser
    \/ DeleteClient \/ DeleteCommission \/ DeleteUser

SpecUnique == Init /\ [][NextUnique]_vars

\* SpecReports: the report handlers, called by any user id.
UserCreateReport == \E t \in Types, w \in WorkRefs, d \in Dates, u \in Ids :
                       create_report(t, w, d, u)
UserEditReport == \E i \in Refs("report"), t \in Types, w \in WorkRefs, d \in Dates,
                     u \in Ids : edit_report(i, t, w, d, u)
UserDeleteReport == \E i \in Refs("report"), u \in Ids : delete_report(i, u)

NextReports == UserCreateReport \/ UserEditReport \/ UserDeleteReport

SpecReports == Init /\ [][NextReports]_vars

\* SpecQuery: the databases the queries read, built by the create handlers.
QueryCreateClient == create_client("acme")
QueryCreateCommission == \E k \in Refs("client") : create_commission("c1", k)
QueryCreateUser == \E u \in Usernames : create_user(u, IF u = "ann" THEN "a@x" ELSE "b@x", "user")
QueryCreateReport == \E t \in Types, w \in WorkRefs, d \in Dates, u \in Refs("user") :
                        create_report(t, w, d, u)

InitQuery == Empty(MaxQueryRows)

NextQuery ==
    \/ QueryCreateClient \/ QueryCreateCommission \/ CreatePlant \/ CreateMachine
    \/ QueryCreateUser \/ QueryCreateReport

SpecQuery == InitQuery /\ [][NextQuery]_vars

\* SpecConc: NumProcs callers run the create handlers statement by statement,
\* all asking for the same unique values.
CheckClient == \E p \in Procs : check_client(p, "acme")
InsertClient == \E p \in Procs : insert_client(p)
CheckCommission == \E p \in Procs : check_commission(p, "c1", 1)
InsertCommission == \E p \in Procs : insert_commission(p)
CheckUsername == \E p \in Procs : check_username(p, "ann", "a@x", "Operatore")
CheckEmail == \E p \in Procs : check_email(p)
InsertUser == \E p \in Procs : insert_user(p)

InitConc == Empty(3 * MaxId)

NextConc ==
    \/ CheckClient \/ InsertClient \/ CheckCommission \/ InsertCommission
    \/ CheckUsername \/ CheckEmail \/ InsertUser

SpecConc == InitConc /\ [][NextConc]_vars

\* ---------------------------------------------------------------- properties
\* Rows that reference a row of another table.
ClientRefs(id) == {k \in commissions : k.client_id = id} \cup {p \in plants : p.client_id = id}
PlantRefs(id) == {m \in machines : m.plant_id = id}
WorkRefsTo(type, id) == {r \in reports : r.type = type /\ r.work_id = id}

\* C1: no delete removes a row that is referenced at that moment: a Client by a
\* Commission or a Plant, a Plant by a Machine, a Commission / Machine by a
\* Report of the matching type.
NoReferencedDeleteStep ==
    /\ \A c \in clients \ clients' : ClientRefs(c.id) = {}
    /\ \A p \in plants \ plants' : PlantRefs(p.id) = {}
    /\ \A k \in commissions \ commissions' : WorkRefsTo("commission", k.id) = {}
    /\ \A m \in machines \ machines' : WorkRefsTo("machine", m.id) = {}
C1_NoReferencedDelete == [][NoReferencedDeleteStep]_vars

\* The Clients a Report resolves to: through its Commission, or through the
\* Plant of its Machine.
OwnerClients(r) ==
    IF r.type = "commission"
    THEN {k \in clients : \E c \in commissions : c.id = r.work_id /\ c.client_id = k.id}
    ELSE {k \in clients : \E m \in machines, p \in plants :
                             m.id = r.work_id /\ m.plant_id = p.id /\ p.client_id = k.id}

\* C4: every live Report has exactly one resolvable owning Client.
C4_ReportOwnerResolvable == \A r \in reports : Cardinality(OwnerClients(r)) = 1

\* What a delete of row l.id of table T must do, given the rows its probe finds.
DeleteOutcome(T, Tn, deps, l) ==
    IF Get(T, l.id) = {} THEN l.res = "NotFound" /\ Tn = T
    ELSE IF deps # {} THEN l.res = "Conflict" /\ Tn = T
    ELSE l.res = "ok" /\ Tn = T \ Get(T, l.id)

\* C7: delete_client / delete_plant / delete_commission / delete_machine give
\* NotFound when the row is absent (even when dependents carry the id), else
\* Conflict when the probe finds a row, else remove exactly the target row; a
\* failing call changes no table.
DeleteProtocolStep ==
    /\ last'.op = "delete_client" =>
         /\ DeleteOutcome(clients, clients', {k \in commissions : k.client_id = last'.id}, last')
         /\ UNCHANGED <<plants, machines, commissions, users, reports>>
    /\ last'.op = "delete_plant" =>
         /\ DeleteOutcome(plants, plants', {m \in machines : m.plant_id = last'.id}, last')
         /\ UNCHANGED <<clients, machines, commissions, users, reports>>
    /\ last'.op = "delete_commission" =>
         /\ DeleteOutcome(commissions, commissions',
                          WorkRefsTo("commission", last'.id), last')
         /\ UNCHANGED <<clients, plants, machines, users, reports>>
    /\ last'.op = "delete_machine" =>
         /\ DeleteOutcome(machines, machines', WorkRefsTo("machine", last'.id), last')
         /\ UNCHANGED <<clients, plants, commissions, users, reports>>
C7_DeleteProtocol == [][DeleteProtocolStep]_vars

\* A Client whose delete once ended in Conflict has now been deleted.
C7_ConflictThenDeleted ==
    /\ last.op = "delete_client" /\ last.res = "ok"
    /\ <<"client", last.id>> \in blocked

\* C2: delete_user(target, acting) is Forbidden and removes nothing when target
\* is 1, or is the acting user, or has role admin; so user 1, the acting user
\* and admins are never removed.
ProtectedUserStep ==
    /\ ( /\ last'.op = "delete_user"
         /\ \/ last'.id = 1
            \/ last'.id = last'.user
            \/ \E u \in users : u.id = last'.id /\ u.role = "admin" )
       => (last'.res = "Forbidden" /\ users' = users)
    /\ \A u \in users \ users' :
         /\ u.id # 1
         /\ u.role # "admin"
         /\ last'.op = "delete_user" /\ last'.id = u.id /\ last'.user # u.id
C2_ProtectedUsersKept == [][ProtectedUserStep]_vars

\* An existing admin other than user 1 and other than the caller was refused.
C2_AdminRefused ==
    /\ last.op = "delete_user" /\ last.res = "Forbidden"
    /\ last.id # 1 /\ last.id # last.user
    /\ \E u \in users : u.id = last.id /\ u.role = "admin"

Unique ==
    /\ \A a, b \in clients : a.name = b.name => a = b
    /\ \A a, b \in commissions : a.code = b.code => a = b
    /\ \A a, b \in users : (a.username = b.username \/ a.email = b.email) => a = b

UniqueCreateStep ==
    /\ last'.op = "create_client" =>
         IF \E c \in clients : c.name = last'.name
         THEN last'.res = "Conflict" /\ UNCHANGED tables
         ELSE last'.res = "ok" /\ \E c \in clients' \ clients : c.name = last'.name
    /\ last'.op = "create_commission" =>
         IF \E c \in commissions : c.code = last'.code
         THEN last'.res = "Conflict" /\ UNCHANGED tables
         ELSE last'.res = "ok" /\ \E c \in commissions' \ commissions : c.code = last'.code
    /\ last'.op = "create_user" =>
         IF \E u \in users : u.username = last'.username \/ u.email = last'.email
         THEN last'.res = "Conflict" /\ UNCHANGED tables
         ELSE last'.res = "ok" /\ \E u \in users' \ users :
                                     u.username = last'.username /\ u.email = last'.email

\* C3: with atomic handlers no two live Clients share a name, no two live
\* Commissions a code, no two live Users a username or an email; a create whose
\* unique value belongs to a live row gives Conflict and inserts nothing, and
\* one whose value is free succeeds.
C3_UniqueColumns == [](Unique) /\ [][UniqueCreateStep]_vars

\* All three tables hold a row and a create has just been refused.
C3_DuplicateRefused ==
    /\ clients # {} /\ commissions # {} /\ users # {}
    /\ last.op \in {"create_client", "create_commission", "create_user"}
    /\ last.res = "Conflict"

\* C9: every delete_user ends in success, Forbidden or NotFound; an absent
\* target that is neither 1 nor the caller gives NotFound.
C9_DeleteUserOutcomes ==
    last.op = "delete_user" =>
        /\ last.res \in {"ok", "Forbidden", "NotFound"}
        /\ (last.res # "ok" /\ Get(users, last.id) = {} /\ last.id # 1 /\ last.id # last.user)
              => last.res = "NotFound"

ReassignStep ==
    /\ last'.op = "edit_report" =>
         IF Get(reports, last'.id) # {}
         THEN /\ last'.res = "ok"
              /\ \E r \in reports' : r.id = last'.id /\ r.operator_id = last'.user
              /\ Cardinality(reports') = Cardinality(reports)
         ELSE last'.res = "Errore400" /\ reports' = reports
    /\ last'.op = "delete_report" =>
         IF Get(reports, last'.id) = {} THEN last'.res = "NotFound" /\ reports' = reports
         ELSE IF \E r \in reports : r.id = last'.id /\ r.operator_id # last'.user
         THEN last'.res = "Forbidden" /\ reports' = reports
         ELSE last'.res = "ok" /\ reports' = reports \ Get(reports, last'.id)

\* C10: edit_report of an existing Report by user u succeeds and makes u its
\* operator, whoever owned it, so delete_report by u right after it succeeds;
\* delete_report by anyone but the operator is Forbidden and removes nothing.
C10_EditThenDelete ==
    /\ [](last.op = "edit_report" /\ last.res = "ok"
            => delete_report_result(reports, last.id, last.user) = "ok")
    /\ [][ReassignStep]_vars

\* A user who did not own the Report has just edited it.
C10_EditedByOther ==
    /\ last.op = "edit_report" /\ last.res = "ok"
    /\ last.owner # last.user
    /\ delete_report_result(reports, last.id, last.owner) = "Forbidden"

RowsOf(rows, r) == {j \in rows : j.report = r}

\* C5: get_reports and get_report_by_id return at most one row per Report; a
\* Report has a row exactly when its operator exists and its Client resolves,
\* and the row's client is the one of its Commission (type commission) or of
\* the Plant of its Machine (type machine).
C5_ReportRowsResolveClient ==
    /\ \A f \in 0..MaxId :
         LET rows == get_reports(f) IN
         /\ \A j \in rows : j.report \in reports
         /\ \A r \in reports :
              /\ Cardinality(RowsOf(rows, r)) <= 1
              /\ (RowsOf(rows, r) # {}) <=>
                    /\ f = 0 \/ r.operator_id = f
                    /\ Get(users, r.operator_id) # {}
                    /\ OwnerClients(r) # {}
              /\ \A j \in RowsOf(rows, r) : j.client \in OwnerClients(r)
    /\ \A i \in Ids :
         LET rows == report_by_id_rows(i) IN
         /\ Cardinality(rows) <= 1
         /\ get_report_by_id(i) = rows
         /\ (rows # {}) <=> \E r \in reports : /\ r.id = i
                                               /\ Get(users, r.operator_id) # {}
                                               /\ OwnerClients(r) # {}
         /\ \A j \in rows : j.report.id = i /\ j.client \in OwnerClients(j.report)

\* A machine Report is listed with the Client of its Machine's Plant.
C5_MachineReportListed ==
    \E j \in get_reports(0) :
        /\ j.report.type = "machine"
        /\ j.plant.client_id = j.client.id
        /\ j \in report_by_id_rows(j.report.id)

\* C6: get_reports_in_interval never returns a machine Report, and without
\* filters returns exactly the commission Reports whose Commission, Client and
\* operator exist.
C6_IntervalOnlyCommissionReports ==
    /\ \A s \in DateStrings, e \in DateStrings, w \in 0..MaxId, o \in 0..MaxId :
         \A j \in get_reports_in_interval(s, e, w, o) : j.report.type # "machine"
    /\ {j.report : j \in get_reports_in_interval("", "", 0, 0)}
         = {r \in reports : /\ r.type = "commission"
                            /\ OwnerClients(r) # {}
                            /\ Get(users, r.operator_id) # {}}

ConcInsertStep ==
    \A p \in Procs :
      /\ (pc[p] = "insert_client" /\ pc'[p] = "idle") =>
            \E c \in clients' \ clients : c.name = req[p].name
      /\ (pc[p] = "insert_commission" /\ pc'[p] = "idle") =>
            \E c \in commissions' \ commissions : c.code = req[p].code
      /\ (pc[p] = "insert_user" /\ pc'[p] = "idle") =>
            \E u \in users' \ users : u.username = req[p].username /\ u.email = req[p].email

\* C8: when the uniqueness query and the insert are separate steps, a caller
\* that passed the query inserts its row whatever the table holds by then, so
\* two callers with the same value both insert.
C8_InsertAfterCheckNotGuarded == [][ConcInsertStep]_vars

\* Two live rows share a Client name, a Commission code, a username and an email.
C8_DuplicatesInserted ==
    /\ \E a, b \in clients : a # b /\ a.name = b.name
    /\ \E a, b \in commissions : a # b /\ a.code = b.code
    /\ \E a, b \in users : a # b /\ a.username = b.username /\ a.email = b.email

====
